---------------------------- MODULE Spec2Model ----------------------------
(***************************************************************************)
(* IEBus message codec (IEBusMessage.py) and line signal encoder           *)
(* (IEBusBitBang.py).                                                      *)
(*                                                                         *)
(* A message buffer is a sequence of bytes (Python index b is element      *)
(* b + 1).  A 32-bit word read by struct.unpack_from('>L') is the sequence *)
(* of its 32 bits, so that the shifts, masks and ors of getField /         *)
(* setField are computed bit by bit.                                       *)
(***************************************************************************)
EXTENDS Integers, Sequences, FiniteSets, TLC

VARIABLES
    pc,             \* position of the calling script
    call,           \* the arguments of the call being made
    given,          \* what the token string of the call was written from
    message_bytes,  \* self.message_bytes of the message (<<>>: no message)
    err,            \* the exception the last call raised, "ok" when none
    ret,            \* the value the last call returned
    signal,         \* the line signal of the message
    decoded         \* the message built from the bytes of the message

vars == <<pc, call, given, message_bytes, err, ret, signal, decoded>>

(***************************************************************************)
(* Bounds of the model.                                                    *)
(***************************************************************************)
\* longest data list whose bytes are enumerated freely
MaxDataLen == 2
\* how far past MaxMessageLenBytes the data lists of the inputs go
MaxOver == 1
\* the longest sample string packed on its own
MaxBits == 10
\* the most rows of a capture
MaxMessages == 2

(***************************************************************************)
(* Python values.                                                          *)
(***************************************************************************)
\* an optional argument: <<>> is None, <<v>> is the supplied value v
None == <<>>
Some(v) == <<v>>

\* bool used as int (True == 1, False == 0)
PyInt(b) == IF b THEN 1 ELSE 0

Pow2(n) == 2 ^ n

\* the sequence s with its elements evaluated (a list, not a lazy function)
List(s) == SubSeq(s, 1, Len(s))

\* bit j (significance j) of the non-negative integer x
Bit(x, j) == (x \div Pow2(j)) % 2

BitAnd(a, b) == IF a = 1 /\ b = 1 THEN 1 ELSE 0
BitOr(a, b) == IF a = 1 \/ b = 1 THEN 1 ELSE 0
BitNot(a) == 1 - a

\* a 32-bit word is the sequence of its 32 bits, most significant first:
\* element i has significance 32 - i.  The integer a run of bits spells:
RECURSIVE BitsValue(_, _)
BitsValue(bits, acc) ==
    IF bits = <<>> THEN acc ELSE BitsValue(Tail(bits), 2 * acc + Head(bits))

\* the 8 bits of each byte value, most significant first
ByteBits ==
    [b \in 0..255 |->
        <<Bit(b, 7), Bit(b, 6), Bit(b, 5), Bit(b, 4),
          Bit(b, 3), Bit(b, 2), Bit(b, 1), Bit(b, 0)>>]

(***************************************************************************)
(* IEBusMessageField and the field layout of IEBusMessage.                 *)
(***************************************************************************)
IEBusMessageField(BitOffset, LengthBits) ==
    [BitOffset |-> BitOffset, LengthBits |-> LengthBits]

Broadcast       == IEBusMessageField(0, 1)
MasterAddress   == IEBusMessageField(1, 12)
MasterAddress_P == IEBusMessageField(13, 1)
SlaveAddress    == IEBusMessageField(14, 12)
SlaveAddress_P  == IEBusMessageField(26, 1)
SlaveAddress_A  == IEBusMessageField(27, 1)
Control         == IEBusMessageField(28, 4)
Control_P       == IEBusMessageField(32, 1)
Control_A       == IEBusMessageField(33, 1)
DataLength      == IEBusMessageField(34, 8)
DataLength_P    == IEBusMessageField(42, 1)
DataLength_A    == IEBusMessageField(43, 1)
DataFieldLength == 10

Data(n)   == IEBusMessageField(44 + (DataFieldLength * n), 8)
Data_P(n) == IEBusMessageField(44 + 8 + (DataFieldLength * n), 1)
Data_A(n) == IEBusMessageField(44 + 9 + (DataFieldLength * n), 1)

UNICAST   == 1
BROADCAST == 0
NAK == 1
ACK == 0

MaxMessageLenBytes == 64
DefaultAckVal == NAK

\* bytearray(n): n zero bytes
bytearray(n) == List([i \in 1..n |-> 0])

(***************************************************************************)
(* struct.unpack_from('>L', buffer, offset) and struct.pack_into.          *)
(***************************************************************************)
lenBytes == 4

\* both raise struct.error unless lenBytes bytes are available at offset
InBuffer(buffer, startByte) == startByte + lenBytes <= Len(buffer)

\* big-endian: byte startByte is the most significant
unpack_from(buffer, startByte) ==
    ByteBits[buffer[startByte + 1]] \o ByteBits[buffer[startByte + 2]]
    \o ByteBits[buffer[startByte + 3]] \o ByteBits[buffer[startByte + 4]]

\* byte m (0 the most significant) of the word
WordByte(word, m) ==
    128 * word[8 * m + 1] + 64 * word[8 * m + 2] + 32 * word[8 * m + 3]
    + 16 * word[8 * m + 4] + 8 * word[8 * m + 5] + 4 * word[8 * m + 6]
    + 2 * word[8 * m + 7] + word[8 * m + 8]

pack_into(buffer, startByte, word) ==
    SubSeq(buffer, 1, startByte)
    \o <<WordByte(word, 0), WordByte(word, 1), WordByte(word, 2), WordByte(word, 3)>>
    \o SubSeq(buffer, startByte + lenBytes + 1, Len(buffer))

(***************************************************************************)
(* IEBusMessage.getField / setField.  The result carries the exception     *)
(* ("ok" when none is raised).  With bitShift the number of word bits      *)
(* below the field, the field is elements top - LengthBits + 1 .. top of   *)
(* the word, top = 32 - bitShift.                                          *)
(***************************************************************************)
\* getField with the bit offset inside the first byte left out of the shift
getField_NoBitOffset(buffer, field) ==
    LET startByte == field.BitOffset \div 8
        bitShift  == (lenBytes * 8) - field.LengthBits
        top       == (lenBytes * 8) - bitShift
    IN  IF ~InBuffer(buffer, startByte)
        THEN [err |-> "struct.error", value |-> 0]
        ELSE [err |-> "ok",
              value |-> BitsValue(SubSeq(unpack_from(buffer, startByte),
                                         top - field.LengthBits + 1, top), 0)]

getField(buffer, field) ==
    LET startByte == field.BitOffset \div 8
        bitShift  == (lenBytes * 8) - field.LengthBits - (field.BitOffset % 8)
        top       == (lenBytes * 8) - bitShift
    IN  IF ~InBuffer(buffer, startByte)
        THEN [err |-> "struct.error", value |-> 0]
        ELSE \* (value >> bitShift) & bitMask
             [err |-> "ok",
              value |-> BitsValue(SubSeq(unpack_from(buffer, startByte),
                                         top - field.LengthBits + 1, top), 0)]

setField(buffer, field, value) ==
    LET startByte == field.BitOffset \div 8
        bitShift  == (lenBytes * 8) - field.LengthBits - (field.BitOffset % 8)
        top       == (lenBytes * 8) - bitShift
        \* bit i of bitMask << bitShift
        maskBit(i) == IF i > top - field.LengthBits /\ i <= top THEN 1 ELSE 0
        \* bit i of value << bitShift, i <= top
        valBit(i)  == Bit(value, top - i)
        \* value << bitShift has a bit above the 32 the format 'L' packs
        tooWide    == value \div Pow2(top) # 0
    IN  IF ~InBuffer(buffer, startByte)
        THEN [err |-> "struct.error", buf |-> buffer]
        ELSE LET valuePtr == unpack_from(buffer, startByte)
                 \* (valuePtr & ~bitMask) | value; below the field the mask
                 \* and the shifted value are 0 and the bits stay
                 new == List([i \in 1..top |->
                                 BitOr(BitAnd(valuePtr[i], BitNot(maskBit(i))),
                                       valBit(i))])
                        \o SubSeq(valuePtr, top + 1, lenBytes * 8)
             IN  IF tooWide
                 THEN [err |-> "struct.error", buf |-> buffer]
                 ELSE [err |-> "ok", buf |-> pack_into(buffer, startByte, new)]

(***************************************************************************)
(* calculateParity: the loop over the bits of value.                       *)
(***************************************************************************)
RECURSIVE ParityLoop(_, _)
ParityLoop(value, p) ==
    IF value = 0 THEN p
    ELSE ParityLoop(value \div 2, IF value % 2 = 1 THEN ~p ELSE p)

\* calculateParity starting from p = True (even parity)
calculateParity_Even(value) == ParityLoop(value, TRUE)

calculateParity(value) == ParityLoop(value, FALSE)

(***************************************************************************)
(* Token strings.  A string is a sequence of one-character strings;        *)
(* replace(':', ''), split() and int(token, 16) are computed on it.        *)
(***************************************************************************)
HexLower == <<"0", "1", "2", "3", "4", "5", "6", "7", "8", "9",
              "a", "b", "c", "d", "e", "f">>
HexUpper == <<"0", "1", "2", "3", "4", "5", "6", "7", "8", "9",
              "A", "B", "C", "D", "E", "F">>

IsHexDigit(c) == \E d \in 1..16 : HexLower[d] = c \/ HexUpper[d] = c
HexDigitValue(c) == (CHOOSE d \in 1..16 : HexLower[d] = c \/ HexUpper[d] = c) - 1

\* str.replace(':', '')
NotColon(c) == c # ":"
StripColons(s) == SelectSeq(s, NotColon)

IsSpace(c) == c \in {" ", "\t", "\n"}

\* str.split(): the maximal runs of non-whitespace characters, in order
split(s) ==
    LET n == Len(s)
        IsStart(i) == ~IsSpace(s[i]) /\ (i = 1 \/ IsSpace(s[i - 1]))
        IsEnd(j)   == ~IsSpace(s[j]) /\ (j = n \/ IsSpace(s[j + 1]))
        starts     == SelectSeq(List([i \in 1..n |-> i]), IsStart)
        EndOf(i)   == CHOOSE j \in i..n :
                          IsEnd(j) /\ \A k \in i..j : ~IsSpace(s[k])
    IN  List([t \in 1..Len(starts) |-> SubSeq(s, starts[t], EndOf(starts[t]))])

RECURSIVE HexFold(_, _)
HexFold(tok, acc) ==
    IF tok = <<>> THEN acc
    ELSE HexFold(Tail(tok), 16 * acc + HexDigitValue(Head(tok)))

\* int(tok, 16) on a token of hexadecimal digits; ValueError on any other
\* character
IntBase16(tok) ==
    IF tok = <<>> \/ \E i \in 1..Len(tok) : ~IsHexDigit(tok[i])
    THEN [err |-> "ValueError", value |-> 0]
    ELSE [err |-> "ok", value |-> HexFold(tok, 0)]

(***************************************************************************)
(* IEBusMessage.isValid, getLengthInBits, getAsBytes, unpackFields.        *)
(***************************************************************************)
\* one comparison of isValid: stored parity bit against calculateParity
ParityCheck(buffer, parityField, field) ==
    LET p == getField(buffer, parityField)
        f == getField(buffer, field)
    IN  IF p.err # "ok" THEN [err |-> p.err, bad |-> FALSE]
        ELSE IF f.err # "ok" THEN [err |-> f.err, bad |-> FALSE]
        ELSE [err |-> "ok", bad |-> (p.value # PyInt(calculateParity(f.value)))]

isValid(buffer) ==
    LET dataLength == getField(buffer, DataLength)
        n == IF dataLength.err = "ok" THEN dataLength.value ELSE 0
        checks == <<ParityCheck(buffer, MasterAddress_P, MasterAddress),
                    ParityCheck(buffer, SlaveAddress_P, SlaveAddress),
                    ParityCheck(buffer, Control_P, Control),
                    ParityCheck(buffer, DataLength_P, DataLength)>>
                  \o List([i \in 1..n |->
                              ParityCheck(buffer, Data_P(i - 1), Data(i - 1))])
    IN  IF \E i \in 1..Len(checks) : checks[i].err # "ok"
        THEN [err |-> "struct.error", value |-> FALSE]
        ELSE [err |-> "ok", value |-> \A i \in 1..Len(checks) : ~checks[i].bad]

getLengthInBits(buffer) ==
    Data(0).BitOffset + (DataFieldLength * getField(buffer, DataLength).value)

\* getAsBytes with the byte count rounded down
getAsBytes_Floor(buffer) ==
    LET length_in_bits  == getLengthInBits(buffer)
        length_in_bytes == length_in_bits \div 8
    IN  SubSeq(buffer, 1, IF length_in_bytes < Len(buffer)
                          THEN length_in_bytes ELSE Len(buffer))

\* message_bytes[:length_in_bytes]
getAsBytes(buffer) ==
    LET length_in_bits  == getLengthInBits(buffer)
        length_in_bytes == ((length_in_bits - 1) \div 8) + 1
    IN  SubSeq(buffer, 1, IF length_in_bytes < Len(buffer)
                          THEN length_in_bytes ELSE Len(buffer))

\* unpackFields keeping the leading data byte of unicast messages
unpackFields_KeepFirst(buffer) ==
    LET broadcast == getField(buffer, Broadcast)
        master    == getField(buffer, MasterAddress)
        slave     == getField(buffer, SlaveAddress)
        data_len  == getField(buffer, DataLength)
        n         == IF data_len.err = "ok" THEN data_len.value ELSE 0
        reads     == List([i \in 1..n |-> getField(buffer, Data(i - 1))])
        raw       == List([i \in 1..n |-> reads[i].value])
        data      == raw
    IN  IF \/ broadcast.err # "ok" \/ master.err # "ok" \/ slave.err # "ok"
           \/ data_len.err # "ok"
           \/ \E i \in 1..n : reads[i].err # "ok"
        THEN [err |-> "struct.error", attrs |-> None]
        ELSE [err |-> "ok",
              attrs |-> Some([broadcast |-> broadcast.value,
                              master_address |-> master.value,
                              slave_address |-> slave.value,
                              data_len |-> data_len.value,
                              data |-> data,
                              src_device |-> IF Len(data) > 0 THEN data[1] ELSE 0,
                              dst_device |-> IF Len(data) > 1 THEN data[2] ELSE 0])]

unpackFields(buffer) ==
    LET broadcast == getField(buffer, Broadcast)
        master    == getField(buffer, MasterAddress)
        slave     == getField(buffer, SlaveAddress)
        data_len  == getField(buffer, DataLength)
        n         == IF data_len.err = "ok" THEN data_len.value ELSE 0
        reads     == List([i \in 1..n |-> getField(buffer, Data(i - 1))])
        raw       == List([i \in 1..n |-> reads[i].value])
        \* remove the leading byte from unicast messages
        data      == IF broadcast.value = UNICAST
                     THEN SubSeq(raw, 2, Len(raw)) ELSE raw
    IN  IF \/ broadcast.err # "ok" \/ master.err # "ok" \/ slave.err # "ok"
           \/ data_len.err # "ok"
           \/ \E i \in 1..n : reads[i].err # "ok"
        THEN [err |-> "struct.error", attrs |-> None]
        ELSE [err |-> "ok",
              attrs |-> Some([broadcast |-> broadcast.value,
                              master_address |-> master.value,
                              slave_address |-> slave.value,
                              data_len |-> data_len.value,
                              data |-> data,
                              src_device |-> IF Len(data) > 0 THEN data[1] ELSE 0,
                              dst_device |-> IF Len(data) > 1 THEN data[2] ELSE 0])]

(***************************************************************************)
(* IEBusMessage.__init__.  The result is the exception raised ("ok" when   *)
(* none), the buffer and the attributes unpackFields set.                  *)
(***************************************************************************)
\* Python truth value of an optional integer / an optional list or string
TruthyInt(opt) == opt # None /\ opt[1] # 0
TruthySeq(opt) == opt # None /\ opt[1] # <<>>

Write(field, value) == [field |-> field, value |-> value]

\* DataWrites with the parity taken of the index instead of the byte
DataWrites_ParityOfIndex(i, val) ==
    <<Write(Data(i), val),
      Write(Data_P(i), PyInt(calculateParity(i))),
      Write(Data_A(i), DefaultAckVal)>>

\* the setField calls of one data byte
DataWrites(i, val) ==
    <<Write(Data(i), val),
      Write(Data_P(i), PyInt(calculateParity(val))),
      Write(Data_A(i), DefaultAckVal)>>

\* for i, val in enumerate(data): the three calls of each byte, in order
AllDataWrites(data) ==
    List([j \in 1..(3 * Len(data)) |->
            DataWrites((j - 1) \div 3, data[((j - 1) \div 3) + 1])[((j - 1) % 3) + 1]])

\* the setField calls of the encode path, in program order
FieldWrites(broadcast, master_address, slave_address, control, data) ==
    (IF TruthyInt(broadcast)
     THEN <<Write(Broadcast, broadcast[1])>> ELSE <<>>)
    \o (IF TruthyInt(master_address)
        THEN <<Write(MasterAddress, master_address[1]),
               Write(MasterAddress_P, PyInt(calculateParity(master_address[1])))>>
        ELSE <<>>)
    \o (IF TruthyInt(slave_address)
        THEN <<Write(SlaveAddress, slave_address[1]),
               Write(SlaveAddress_P, PyInt(calculateParity(slave_address[1]))),
               Write(SlaveAddress_A, DefaultAckVal)>>
        ELSE <<>>)
    \o (IF TruthyInt(control)
        THEN <<Write(Control, control[1]),
               Write(Control_P, PyInt(calculateParity(control[1]))),
               Write(Control_A, DefaultAckVal)>>
        ELSE <<>>)
    \o (IF TruthySeq(data)
        THEN <<Write(DataLength, Len(data[1])),
               Write(DataLength_P, PyInt(calculateParity(Len(data[1])))),
               Write(DataLength_A, DefaultAckVal)>>
             \o AllDataWrites(data[1])
        ELSE <<>>)

\* writes[lo..hi] applied in order; the first exception ends the constructor
RECURSIVE ApplyWrites(_, _, _, _)
ApplyWrites(buffer, writes, lo, hi) ==
    IF lo > hi THEN [err |-> "ok", buf |-> buffer]
    ELSE IF lo = hi THEN setField(buffer, writes[lo].field, writes[lo].value)
    ELSE LET mid == (lo + hi) \div 2
             r   == ApplyWrites(buffer, writes, lo, mid)
         IN  IF r.err # "ok" THEN r ELSE ApplyWrites(r.buf, writes, mid + 1, hi)

\* lines 142-164
InitFromFields(broadcast, master_address, slave_address, control, data) ==
    LET writes == FieldWrites(broadcast, master_address, slave_address,
                              control, data)
        r == ApplyWrites(bytearray(MaxMessageLenBytes + 4), writes, 1, Len(writes))
    IN  [err |-> r.err, buf |-> r.buf, attrs |-> None]

\* bytes.ljust(width): pads with the space byte 0x20
ljust(bytes, width) ==
    IF Len(bytes) >= width THEN bytes
    ELSE bytes \o List([i \in 1..(width - Len(bytes)) |-> 32])

\* lines 128-132
InitFromBytes(raw_bytes) ==
    LET buffer == ljust(raw_bytes, MaxMessageLenBytes + 4)
        u == unpackFields(buffer)
        v == isValid(buffer)
    IN  IF u.err # "ok" THEN [err |-> u.err, buf |-> buffer, attrs |-> None]
        ELSE IF v.err # "ok" THEN [err |-> v.err, buf |-> buffer, attrs |-> None]
        ELSE [err |-> "ok", buf |-> buffer, attrs |-> u.attrs]

\* InitFromString reading the fourth token as control and the fifth as a
\* length, the data starting at the sixth
InitFromString_ControlToken(message_string) ==
    LET message_parts == split(StripColons(message_string))
        n == Len(message_parts)
        master == IntBase16(message_parts[2])
        slave  == IntBase16(message_parts[3])
        ctrl   == IntBase16(message_parts[4])
        toks   == SubSeq(message_parts, 6, n)
        parsed == List([i \in 1..Len(toks) |-> IntBase16(toks[i])])
        failed(e) == [err |-> e, buf |-> <<>>, attrs |-> None]
    IN  IF n < 4 THEN failed("IndexError")
        ELSE IF master.err # "ok" \/ slave.err # "ok" \/ ctrl.err # "ok"
             THEN failed("ValueError")
        ELSE IF \E i \in 1..Len(toks) : parsed[i].err # "ok"
             THEN failed("ValueError")
        ELSE InitFromFields(
                 Some(IF message_parts[1] = <<"B">> THEN BROADCAST ELSE UNICAST),
                 Some(master.value), Some(slave.value), Some(ctrl.value),
                 Some(List([i \in 1..Len(toks) |-> parsed[i].value])))

\* lines 134-140, then the encode path
InitFromString(message_string) ==
    LET message_parts == split(StripColons(message_string))
        n == Len(message_parts)
        master == IntBase16(message_parts[2])
        slave  == IntBase16(message_parts[3])
        toks   == SubSeq(message_parts, 4, n)
        parsed == List([i \in 1..Len(toks) |-> IntBase16(toks[i])])
        failed(e) == [err |-> e, buf |-> <<>>, attrs |-> None]
    IN  IF n < 2 THEN failed("IndexError")
        ELSE IF master.err # "ok" THEN failed(master.err)
        ELSE IF n < 3 THEN failed("IndexError")
        ELSE IF slave.err # "ok" THEN failed(slave.err)
        ELSE IF \E i \in 1..Len(toks) : parsed[i].err # "ok"
             THEN failed("ValueError")
        ELSE InitFromFields(
                 Some(IF message_parts[1] = <<"B">> THEN BROADCAST ELSE UNICAST),
                 Some(master.value), Some(slave.value), Some(15),
                 Some(List([i \in 1..Len(toks) |-> parsed[i].value])))

IEBusMessage(a) ==
    IF TruthySeq(a.message_bytes) THEN InitFromBytes(a.message_bytes[1])
    ELSE IF TruthySeq(a.message_string) THEN InitFromString(a.message_string[1])
    ELSE InitFromFields(a.broadcast, a.master_address, a.slave_address,
                        a.control, a.data)

(***************************************************************************)
(* IEBusBitBang: timing constants and the line signal of a message.        *)
(***************************************************************************)
\* round(1e-6 * bitRate * time) for time = num / den microseconds; bitRate
\* is 1000000, one sample per microsecond
uS_to_bits(num, den) == (2 * num + den) \div (2 * den)

\* T_Bit_uS = 256 / 6.291456 = 15625 / 384
T_Bit_uS_num == 15625
T_Bit_uS_den == 384

T_StartBit == uS_to_bits(170, 1)
T_Bit      == uS_to_bits(T_Bit_uS_num, T_Bit_uS_den)
T_Bit_1    == uS_to_bits(T_Bit_uS_num, 2 * T_Bit_uS_den)
T_Bit_0    == uS_to_bits(4 * T_Bit_uS_num, 5 * T_Bit_uS_den)
T_TxWait   == uS_to_bits(88, 1)

\* lineState = { False: '1', True: '0' }
lineState(state) == IF state THEN "0" ELSE "1"

make_output_segment(state, timeBits) ==
    List([i \in 1..timeBits |-> lineState(state)])

\* make_output_from_bit with the two bit values exchanged
make_output_from_bit_Swapped(bitVal) ==
    IF PyInt(bitVal) = 0
    THEN make_output_segment(TRUE, T_Bit_1)
         \o make_output_segment(FALSE, (T_Bit - T_Bit_1))
    ELSE make_output_segment(TRUE, T_Bit_0)
         \o make_output_segment(FALSE, (T_Bit - T_Bit_0))

make_output_from_bit(bitVal) ==
    IF PyInt(bitVal) = 0
    THEN make_output_segment(TRUE, T_Bit_0)
         \o make_output_segment(FALSE, (T_Bit - T_Bit_0))
    ELSE make_output_segment(TRUE, T_Bit_1)
         \o make_output_segment(FALSE, (T_Bit - T_Bit_1))

\* the outputs of messageBits[lo..hi], concatenated in order
RECURSIVE BitsOutput(_, _, _)
BitsOutput(messageBits, lo, hi) ==
    IF lo > hi THEN <<>>
    ELSE IF lo = hi THEN make_output_from_bit(messageBits[lo])
    ELSE LET mid == (lo + hi) \div 2
         IN  BitsOutput(messageBits, lo, mid) \o BitsOutput(messageBits, mid + 1, hi)

make_output_from_iebus_bits(messageBits) ==
    make_output_segment(TRUE, T_StartBit)
    \o make_output_segment(FALSE, T_Bit_1)
    \o BitsOutput(messageBits, 1, Len(messageBits))
    \o make_output_segment(FALSE, T_TxWait)

\* '{:08b}'.format(b)
Format08b(b) == List([j \in 1..8 |-> IF Bit(b, 8 - j) = 1 THEN "1" ELSE "0"])

bytes_to_bits(messageBytes) ==
    LET \* ''.join(...)
        bitStr == List([i \in 1..(8 * Len(messageBytes)) |->
                      Format08b(messageBytes[((i - 1) \div 8) + 1])[((i - 1) % 8) + 1]])
    IN  List([i \in 1..Len(bitStr) |-> bitStr[i] = "1"])

make_output_from_iebus_message(buffer) ==
    LET msgBytes == getAsBytes(buffer)
        msgBits  == bytes_to_bits(msgBytes)
        n        == getLengthInBits(buffer)
        cut      == SubSeq(msgBits, 1, IF n < Len(msgBits) THEN n ELSE Len(msgBits))
    IN  make_output_from_iebus_bits(cut)

\* str.ljust(width, fillchar)
str_ljust(str, width, fillchar) ==
    IF Len(str) >= width THEN str
    ELSE str \o List([i \in 1..(width - Len(str)) |-> fillchar])

\* int(byteStr, 2)
RECURSIVE IntBase2(_, _)
IntBase2(byteStr, acc) ==
    IF byteStr = <<>> THEN acc
    ELSE IntBase2(Tail(byteStr), 2 * acc + (IF Head(byteStr) = "1" THEN 1 ELSE 0))

\* bits_to_bytes padding an incomplete byte with '0'
bits_to_bytes_PadZero(bitStr) ==
    LET starts == List([k \in 1..((Len(bitStr) + 7) \div 8) |-> 8 * (k - 1)])
        byteStrings == List([k \in 1..Len(starts) |->
            str_ljust(SubSeq(bitStr, starts[k] + 1,
                             IF starts[k] + 8 < Len(bitStr) THEN starts[k] + 8
                                                            ELSE Len(bitStr)),
                      8, "0")])
    IN  List([k \in 1..Len(byteStrings) |-> IntBase2(byteStrings[k], 0)])

bits_to_bytes(bitStr) ==
    LET \* range(0, len(bitStr), 8)
        starts == List([k \in 1..((Len(bitStr) + 7) \div 8) |-> 8 * (k - 1)])
        \* bitStr[i:i+8].ljust(8,'1')
        byteStrings == List([k \in 1..Len(starts) |->
            str_ljust(SubSeq(bitStr, starts[k] + 1,
                             IF starts[k] + 8 < Len(bitStr) THEN starts[k] + 8
                                                            ELSE Len(bitStr)),
                      8, "1")])
    IN  List([k \in 1..Len(byteStrings) |-> IntBase2(byteStrings[k], 0)])

(***************************************************************************)
(* Field access and parity applied to enumerated inputs.                   *)
(***************************************************************************)
HeaderFields ==
    {Broadcast, MasterAddress, MasterAddress_P, SlaveAddress, SlaveAddress_P,
     SlaveAddress_A, Control, Control_P, Control_A, DataLength, DataLength_P,
     DataLength_A}

\* every layout of a message of up to MaxMessageLenBytes + MaxOver data bytes
AllFields ==
    HeaderFields \cup
    UNION {{Data(n), Data_P(n), Data_A(n)} :
              n \in 0..(MaxMessageLenBytes + MaxOver - 1)}

NoCall == [op |-> "none", field |-> Broadcast, value |-> 0]

InitUnit ==
    /\ pc = "idle"
    /\ call = NoCall
    /\ message_bytes = bytearray(MaxMessageLenBytes + 4)
    /\ err = "ok"
    /\ ret = 0
    /\ signal = <<>>
    /\ given = None
    /\ decoded = None

SetFieldCall ==
    /\ pc = "idle"
    /\ \E field \in AllFields : \E value \in 0..(Pow2(field.LengthBits) - 1) :
          \E r \in {setField(message_bytes, field, value)} :
              /\ call' = [op |-> "setField", field |-> field, value |-> value]
              /\ message_bytes' = r.buf
              /\ err' = r.err
    /\ pc' = "set"
    /\ UNCHANGED <<ret, signal, given, decoded>>

GetFieldCall ==
    /\ pc = "set"
    /\ \E r \in {getField(message_bytes, call.field)} :
           /\ ret' = r.value
           /\ err' = IF err = "ok" THEN r.err ELSE err
    /\ pc' = "got"
    /\ UNCHANGED <<call, message_bytes, signal, given, decoded>>

ParityCall ==
    /\ pc = "idle"
    /\ \E value \in 0..4095 :
          /\ call' = [op |-> "calculateParity", field |-> Broadcast,
                      value |-> value]
          /\ ret' = PyInt(calculateParity(value))
    /\ pc' = "parity"
    /\ UNCHANGED <<message_bytes, err, signal, given, decoded>>

\* sample strings of up to MaxBits samples
RECURSIVE SampleStrings(_)
SampleStrings(n) ==
    IF n = 0 THEN {<<>>}
    ELSE LET shorter == SampleStrings(n - 1)
         IN  shorter \cup {Append(str, c) : str \in {t \in shorter : Len(t) = n - 1},
                                            c \in {"0", "1"}}

BitsToBytesCall ==
    /\ pc = "idle"
    /\ \E bitStr \in SampleStrings(MaxBits) :
          /\ call' = [op |-> "bits_to_bytes", field |-> Broadcast, value |-> bitStr]
          /\ ret' = bits_to_bytes(bitStr)
    /\ pc' = "bytes"
    /\ UNCHANGED <<message_bytes, err, signal, given, decoded>>

NextUnit == SetFieldCall \/ GetFieldCall \/ ParityCall \/ BitsToBytesCall

SpecUnit == InitUnit /\ [][NextUnit]_vars

(***************************************************************************)
(* The calling script: a message is constructed from enumerated arguments, *)
(* then validated, encoded to its line signal, or decoded again from its   *)
(* bytes.                                                                  *)
(***************************************************************************)
\* 0x000, 0x190, 0x440; 0x0, 0x7, 0xF; 0x00, 0x0B, 0xFF
MasterVals  == {0, 400}
SlaveVals   == {0, 1088}
ControlVals == {0, 7, 15}
ByteVals    == {0, 11, 255}

Optional(S) == {None} \cup {Some(v) : v \in S}

\* every list of up to MaxDataLen bytes of ByteVals
ShortData == UNION {[1..n -> ByteVals] : n \in 0..MaxDataLen}

\* lengths around the end of the buffer and around MaxMessageLenBytes
LongLens ==
    {47, 48, MaxMessageLenBytes}
    \cup (MaxMessageLenBytes + 1)..(MaxMessageLenBytes + MaxOver)

LongData == {List([i \in 1..n |-> 11]) : n \in LongLens}

Args(message_bytes_, message_string_, broadcast_, master_, slave_, control_, data_) ==
    [message_bytes |-> message_bytes_, message_string |-> message_string_,
     broadcast |-> broadcast_, master_address |-> master_,
     slave_address |-> slave_, control |-> control_, data |-> data_]

\* every combination of header fields with the short lists; the long lists
\* with and without a header
FieldCalls ==
    {Args(None, None, b, m, s, c, d) :
        b \in Optional({BROADCAST, UNICAST}), m \in Optional(MasterVals),
        s \in Optional(SlaveVals), c \in Optional(ControlVals),
        d \in Optional(ShortData)}
    \cup {Args(None, None, Some(UNICAST), Some(400), Some(1088), Some(15), Some(d)) :
             d \in LongData}
    \cup {Args(None, None, None, None, None, None, Some(d)) : d \in LongData}

\* a master address that does not fit its 12 bits (0x1FFF)
WideCalls ==
    {Args(None, None, Some(b), Some(8191), Some(1088), Some(15), Some(<<11>>)) :
        b \in {BROADCAST, UNICAST}}

\* '%0<width>x' % v, in upper or lower case
HexToken(v, width, upper) ==
    List([i \in 1..width |->
        (IF upper THEN HexUpper ELSE HexLower)[((v \div Pow2(4 * (width - i))) % 16) + 1]])

\* sep.join(tokens[lo..hi])
RECURSIVE JoinRange(_, _, _, _)
JoinRange(tokens, sep, lo, hi) ==
    IF lo > hi THEN <<>>
    ELSE IF lo = hi THEN tokens[lo]
    ELSE LET mid == (lo + hi) \div 2
         IN  JoinRange(tokens, sep, lo, mid) \o sep
             \o JoinRange(tokens, sep, mid + 1, hi)

Join(tokens, sep) == JoinRange(tokens, sep, 1, Len(tokens))

\* the text "<type> <master> <slave> <data>..." of a message, with or
\* without a colon after the type
TokenString(type, colon, master, slave, data, upper) ==
    Join(<<type \o (IF colon THEN <<":">> ELSE <<>>),
           HexToken(master, 3, upper), HexToken(slave, 3, upper)>>
         \o List([i \in 1..Len(data) |-> HexToken(data[i], 2, upper)]), <<" ">>)

Meaning(type, master, slave, data) ==
    Some([type |-> type, master |-> master, slave |-> slave, data |-> data])

\* well-formed strings, each with the field values it was written from
StringCall(t, colon, m, s, d, u) ==
    <<Args(None, Some(TokenString(t, colon, m, s, d, u)), None, None, None, None,
           None),
      Meaning(t, m, s, d)>>

StringCalls ==
    {StringCall(t, colon, m, s, d, u) :
        t \in {<<"B">>, <<"-">>, <<"b">>}, colon \in BOOLEAN,
        m \in MasterVals \cup {511}, s \in SlaveVals, d \in ShortData,
        u \in BOOLEAN}
    \cup {StringCall(<<"-">>, FALSE, 400, 1088, d, TRUE) : d \in LongData}

\* "- 190 440 f 5 00 25 74 9C 04" and "B 1ff 000 f 1 45"
Example1 ==
    <<"-", " ", "1", "9", "0", " ", "4", "4", "0", " ", "f", " ",
      "5", " ", "0", "0", " ", "2", "5", " ", "7", "4", " ", "9",
      "C", " ", "0", "4">>
Example2 ==
    <<"B", " ", "1", "f", "f", " ", "0", "0", "0", " ", "f", " ",
      "1", " ", "4", "5">>

ExampleCalls ==
    {<<Args(None, Some(Example1), None, None, None, None, None),
       Meaning(<<"-">>, 400, 1088, <<15, 5, 0, 37, 116, 156, 4>>)>>,
     <<Args(None, Some(Example2), None, None, None, None, None),
       Meaning(<<"B">>, 511, 0, <<15, 1, 69>>)>>}

\* "", " ", "B", "B 190", "B 1zz 440", "- 190 4x0 0b", "- 190 440 0g"
MalformedStrings ==
    {<<>>, <<" ">>, <<"B">>, <<"B", " ", "1", "9", "0">>,
     <<"B", " ", "1", "z", "z", " ", "4", "4", "0">>,
     <<"-", " ", "1", "9", "0", " ", "4", "x", "0", " ", "0", "b">>,
     <<"-", " ", "1", "9", "0", " ", "4", "4", "0", " ", "0", "g">>}

MalformedCalls ==
    {<<Args(None, Some(str), None, None, None, None, None), None>> :
        str \in MalformedStrings}

Calls ==
    {<<a, None>> : a \in FieldCalls \cup WideCalls}
    \cup StringCalls \cup ExampleCalls \cup MalformedCalls

Init ==
    /\ pc = "new"
    /\ \E c \in Calls : call = c[1] /\ given = c[2]
    /\ message_bytes = <<>>
    /\ err = "ok"
    /\ ret = FALSE
    /\ signal = <<>>
    /\ decoded = None

\* msg = IEBusMessage(...)
Construct ==
    /\ pc = "new"
    /\ \E r \in {IEBusMessage(call)} :
           /\ err' = r.err
           /\ message_bytes' = IF r.err = "ok" THEN r.buf ELSE <<>>
           /\ pc' = IF r.err = "ok" THEN "constructed" ELSE "raised"
    /\ UNCHANGED <<call, given, ret, signal, decoded>>

\* msg.isValid()
IsValidCall ==
    /\ pc = "constructed"
    /\ \E r \in {isValid(message_bytes)} :
           /\ ret' = r.value
           /\ err' = r.err
    /\ pc' = "validated"
    /\ UNCHANGED <<call, given, message_bytes, signal, decoded>>

\* IEBusBitBang.make_output_from_iebus_message(msg)
Encode ==
    /\ pc = "constructed"
    /\ signal' = make_output_from_iebus_message(message_bytes)
    /\ pc' = "encoded"
    /\ UNCHANGED <<call, given, message_bytes, err, ret, decoded>>

\* IEBusMessage(message_bytes=msg.getAsBytes())
Decode ==
    /\ pc = "constructed"
    /\ decoded' = Some(IEBusMessage(Args(Some(getAsBytes(message_bytes)), None,
                                         None, None, None, None, None)))
    /\ pc' = "decoded"
    /\ UNCHANGED <<call, given, message_bytes, err, ret, signal>>

Next == Construct \/ IsValidCall \/ Encode \/ Decode

Spec == Init /\ [][Next]_vars

(***************************************************************************)
(* Sequences of setField calls on one buffer.  given holds the value of    *)
(* the last call made on each layout.                                      *)
(***************************************************************************)
\* layouts that share 32-bit windows, and one whose window leaves the buffer
FrameFields ==
    {MasterAddress, MasterAddress_P, SlaveAddress, SlaveAddress_P, Control,
     Data(0), Data_P(47)}

FrameValues(field) ==
    {0, Pow2(field.LengthBits) - 1} \cup
    (IF field.LengthBits = 12 THEN {1088} ELSE {})

InitFrame ==
    /\ pc = "idle"
    /\ call = NoCall
    /\ message_bytes = bytearray(MaxMessageLenBytes + 4)
    /\ err = "ok"
    /\ ret = 0
    /\ signal = <<>>
    /\ given = <<>>
    /\ decoded = None

SetFieldNext ==
    /\ pc \in {"idle", "set"}
    /\ \E field \in FrameFields : \E value \in FrameValues(field) :
          \E r \in {setField(message_bytes, field, value)} :
              /\ call' = [op |-> "setField", field |-> field, value |-> value]
              /\ message_bytes' = r.buf
              /\ err' = r.err
              /\ pc' = IF r.err = "ok" THEN "set" ELSE "raised"
              /\ given' = [f \in DOMAIN given \cup {field} |->
                              IF f = field THEN value ELSE given[f]]
    /\ UNCHANGED <<ret, signal, decoded>>

SpecFrame == InitFrame /\ [][SetFieldNext]_vars

(***************************************************************************)
(* The calling script given raw message bytes: IEBusMessage(message_bytes) *)
(* followed by the same operations.                                        *)
(***************************************************************************)
\* buffers of messages constructed from fields
FieldBuffers ==
    {InitFromFields(Some(b), Some(400), Some(1088), Some(15), Some(d)).buf :
        b \in {BROADCAST, UNICAST}, d \in ShortData}

\* buffer with one bit of it inverted
Flipped(buffer, field) ==
    setField(buffer, field, 1 - getField(buffer, field).value).buf

\* a message of two data bytes with one parity bit inverted, the parity bit
\* of the absent third data byte included
FlippedBuffers ==
    {Flipped(InitFromFields(Some(b), Some(400), Some(1088), Some(15),
                            Some(<<11, 255>>)).buf, field) :
        b \in {BROADCAST, UNICAST},
        field \in {MasterAddress_P, SlaveAddress_P, Control_P, DataLength_P,
                   Data_P(0), Data_P(1), Data_P(2)}}

\* a header that declares n data bytes, the data all zero
Declaring(n) ==
    ApplyWrites(bytearray(MaxMessageLenBytes + 4),
                <<Write(DataLength, n),
                  Write(DataLength_P, PyInt(calculateParity(n)))>>, 1, 2).buf

DeclaredLens == {0, 46, 47, 48, MaxMessageLenBytes}

RawBytes ==
    {getAsBytes(buffer) : buffer \in FieldBuffers \cup FlippedBuffers}
    \cup FlippedBuffers
    \cup {Declaring(n) : n \in DeclaredLens}
    \cup {<<128>>, <<0, 0, 0, 0, 0, 0>>}

RawCalls == {Args(Some(raw), None, None, None, None, None, None) : raw \in RawBytes}

InitDecode ==
    /\ pc = "new"
    /\ call \in RawCalls
    /\ given = None
    /\ message_bytes = <<>>
    /\ err = "ok"
    /\ ret = FALSE
    /\ signal = <<>>
    /\ decoded = None

SpecDecode == InitDecode /\ [][Next]_vars

(***************************************************************************)
(* BitBangUtility: the messages of a capture are placed on a timeline of   *)
(* idle samples, the timeline is trimmed, guarded with idle samples and    *)
(* printed or packed into bytes.                                           *)
(***************************************************************************)
\* buf.strip('1')
strip(buf, char) ==
    IF \A i \in 1..Len(buf) : buf[i] = char THEN <<>>
    ELSE SubSeq(buf,
                CHOOSE i \in 1..Len(buf) :
                    buf[i] # char /\ \A j \in 1..(i - 1) : buf[j] = char,
                CHOOSE i \in 1..Len(buf) :
                    buf[i] # char /\ \A j \in (i + 1)..Len(buf) : buf[j] = char)

\* signal[time:time+messageLen] = messageOutput
SliceAssign(list, start, stop, values) ==
    LET lo == IF start < Len(list) THEN start ELSE Len(list)
        hi == IF stop < lo THEN lo ELSE IF stop < Len(list) THEN stop ELSE Len(list)
    IN  SubSeq(list, 1, lo) \o values \o SubSeq(list, hi + 1, Len(list))

\* the samples added on either side of the trimmed timeline
IdleGuard == 10000

\* the rows of the capture on the channel, timestamps counted from the first
Normalized(rows, channel) ==
    LET messages == SelectSeq(rows, LAMBDA row : row[2] = channel)
        startTime == messages[1][1]
    IN  List([i \in 1..Len(messages) |->
                 <<messages[i][1] - startTime, messages[i][2], messages[i][3]>>])

\* the line signal of every row's message
MessageSignals(messages) ==
    List([i \in 1..Len(messages) |->
             make_output_from_iebus_message(InitFromString(messages[i][3]).buf)])

totalLength(regular, messages, messageSignals) ==
    IF regular # 0 THEN regular * Len(messages)
    ELSE messages[Len(messages)][1] + Len(messageSignals[Len(messageSignals)])

\* the loop over the messages, from message i on
RECURSIVE PlaceFrom(_, _, _, _, _)
PlaceFrom(signal_, i, regular, messages, messageSignals) ==
    IF i > Len(messages) THEN signal_
    ELSE LET time == IF regular # 0 THEN (i - 1) * regular ELSE messages[i][1]
             messageOutput == messageSignals[i]
             messageLen == Len(messageOutput)
         IN  PlaceFrom(SliceAssign(signal_, time, time + messageLen, messageOutput),
                       i + 1, regular, messages, messageSignals)

\* the glitch samples added behind the trailing idle guard
AddGlitch_Trailing(buf, glitch) ==
    IF glitch # 0 THEN buf \o List([i \in 1..glitch |-> "1"]) ELSE buf

AddGlitch(buf, glitch) ==
    IF glitch # 0 THEN List([i \in 1..glitch |-> "1"]) \o buf ELSE buf

AddIdle(buf) ==
    LET idle == List([i \in 1..IdleGuard |-> "1"])
    IN  idle \o strip(buf, "1") \o idle

\* the captured rows: timestamp, channel, message string
Texts == {<<"B", " ", "1", "9", "0", " ", "4", "4", "0">>,
          <<"-", " ", "1", "9", "0", " ", "4", "4", "0", " ", "0", "b">>}
Gaps == {100, 3000}
RowChoices ==
    {<<gap, "RX", text>> : gap \in Gaps, text \in Texts}
    \cup {<<100, "TX", CHOOSE text \in Texts : Len(text) = 9>>}

\* timestamps grow along the capture: each row's first entry is the time
\* since the row before it
RECURSIVE Stamped(_, _)
Stamped(choices, before) ==
    IF choices = <<>> THEN <<>>
    ELSE LET row == Head(choices)
         IN  <<<<before + row[1], row[2], row[3]>>>>
             \o Stamped(Tail(choices), before + row[1])

RECURSIVE RowLists(_)
RowLists(n) ==
    IF n = 0 THEN {<<>>}
    ELSE LET shorter == RowLists(n - 1)
         IN  shorter \cup {Append(rows, row) :
                              rows \in {l \in shorter : Len(l) = n - 1},
                              row \in RowChoices}

Regulars == {0, 100, 3000}
Glitches == {0, 3}

\* --glitch and --simulate are drawn where the script reads them
ReplayArgs ==
    {[message |-> None, files |-> Stamped(rows, 0), channel |-> "RX",
      regular |-> regular, glitch |-> None, simulate |-> None] :
        rows \in RowLists(MaxMessages) \ {<<>>}, regular \in Regulars}
    \cup
    {[message |-> Some(text), files |-> <<>>, channel |-> "RX",
      regular |-> 0, glitch |-> None, simulate |-> None] : text \in Texts}

InitReplay ==
    /\ pc = "main"
    /\ call \in ReplayArgs
    /\ message_bytes = <<>>
    /\ err = "ok"
    /\ ret = <<>>
    /\ signal = <<>>
    /\ given = None
    /\ decoded = None

\* lines 100-103: a single message
SingleMessage ==
    /\ pc = "main"
    /\ call.message # None
    /\ ret' = make_output_from_iebus_message(InitFromString(call.message[1]).buf)
    /\ pc' = "composed"
    /\ UNCHANGED <<call, given, message_bytes, err, signal, decoded>>

\* lines 111-149: the messages of the capture files on one timeline
Compose ==
    /\ pc = "main"
    /\ call.message = None
    /\ IF SelectSeq(call.files, LAMBDA row : row[2] = call.channel) = <<>>
       THEN \* messages[0][0]
            /\ err' = "IndexError"
            /\ pc' = "raised"
            /\ UNCHANGED <<signal, ret>>
       ELSE \E messages \in {Normalized(call.files, call.channel)} :
            \E messageSignals \in {MessageSignals(messages)} :
            \E placed \in {PlaceFrom(
                   List([i \in 1..totalLength(call.regular, messages, messageSignals)
                            |-> "1"]),
                   1, call.regular, messages, messageSignals)} :
               /\ signal' = placed
               /\ ret' = placed
               /\ pc' = "composed"
               /\ UNCHANGED err
    /\ UNCHANGED <<call, given, message_bytes, decoded>>

\* lines 151-158: idle samples on either side, then the glitch samples
Pad ==
    /\ pc = "composed"
    /\ \E glitch \in Glitches :
          /\ call' = [call EXCEPT !.glitch = Some(glitch)]
          /\ ret' = AddGlitch(AddIdle(ret), glitch)
    /\ pc' = "padded"
    /\ UNCHANGED <<given, message_bytes, err, signal, decoded>>

\* lines 161-165: the samples are printed
Simulate ==
    /\ pc = "padded"
    /\ call' = [call EXCEPT !.simulate = Some(TRUE)]
    /\ pc' = "printed"
    /\ UNCHANGED <<given, message_bytes, err, ret, signal, decoded>>

\* lines 166-170: the samples are packed for the SPI transmitter
Transmit ==
    /\ pc = "padded"
    /\ call' = [call EXCEPT !.simulate = Some(FALSE)]
    /\ ret' = bits_to_bytes(ret)
    /\ pc' = "transmitted"
    /\ UNCHANGED <<given, message_bytes, err, signal, decoded>>

NextReplay == SingleMessage \/ Compose \/ Pad \/ Simulate \/ Transmit

SpecReplay == InitReplay /\ [][NextReplay]_vars

\* the layouts of a message of up to MaxMessageLenBytes data bytes
ProtocolFields ==
    HeaderFields \cup
    UNION {{Data(n), Data_P(n), Data_A(n)} : n \in 0..(MaxMessageLenBytes - 1)}

\* a write followed by a read that both completed returns the value written
RoundTripInsideBuffer ==
    (pc = "got" /\ err = "ok") =>
        /\ call.field.LengthBits \in {1, 4, 8, 12}
        /\ ret = call.value

\* the last data byte whose window is inside the buffer reads back as 0xFF
RoundTripLastInside ==
    /\ pc = "got" /\ err = "ok"
    /\ call.field = Data(47) /\ call.value = 255 /\ ret = 255

(***************************************************************************)
(* C1: a value written with setField into the zero-initialised 68-byte     *)
(* buffer is the value getField reads from the same layout, for every      *)
(* protocol field layout of width 1, 4, 8 or 12 (header fields and the     *)
(* data, parity and acknowledgement fields of data bytes 0..63) and every  *)
(* value of that width.                                                    *)
(***************************************************************************)
C1_RoundTrip ==
    (pc = "got" /\ call.field \in ProtocolFields) =>
        /\ call.field.LengthBits \in {1, 4, 8, 12}
        /\ err = "ok"
        /\ ret = call.value

(***************************************************************************)
(* C2: calculateParity(value) is 1 iff the number of set bits of value is  *)
(* odd, for value in 0..4095; parity(0x0B) = 1, parity(0) = 0,             *)
(* parity(0xFF) = 0.                                                       *)
(***************************************************************************)
PopCount(v) == Cardinality({j \in 0..11 : Bit(v, j) = 1})

Read(field) == getField(message_bytes, field).value

Constructed == pc \in {"constructed", "validated", "encoded", "decoded"}

\* the number of data bytes the call supplies
SuppliedLen ==
    IF given # None THEN Len(given[1].data)
    ELSE IF call.data # None THEN Len(call.data[1])
    ELSE 0

ArgInRange(opt, max) == opt = None \/ opt[1] \in 0..max

\* addresses in 0..0xFFF, control in 0..0xF, data bytes in 0..0xFF
CallInRange ==
    /\ ArgInRange(call.broadcast, 1)
    /\ ArgInRange(call.master_address, 4095)
    /\ ArgInRange(call.slave_address, 4095)
    /\ ArgInRange(call.control, 15)
    /\ call.data # None => \A i \in 1..Len(call.data[1]) : call.data[1][i] \in 0..255
    /\ given # None =>
          /\ given[1].master \in 0..4095
          /\ given[1].slave \in 0..4095
          /\ \A i \in 1..Len(given[1].data) : given[1].data[i] \in 0..255

OddParity(v) == PopCount(v) % 2

(***************************************************************************)
(* C3: in every message constructed from in-range fields or from a token   *)
(* string, the stored parity bit of master address, slave address,         *)
(* control, data length and each data byte 0..dataLength-1 is the odd      *)
(* parity of the stored field, and isValid() returns True.                 *)
(***************************************************************************)
C3_ParityInvariant ==
    (Constructed /\ CallInRange) =>
        /\ Read(MasterAddress_P) = OddParity(Read(MasterAddress))
        /\ Read(SlaveAddress_P) = OddParity(Read(SlaveAddress))
        /\ Read(Control_P) = OddParity(Read(Control))
        /\ Read(DataLength_P) = OddParity(Read(DataLength))
        /\ \A i \in 0..(Read(DataLength) - 1) :
              Read(Data_P(i)) = OddParity(Read(Data(i)))
        /\ pc = "validated" => (ret = TRUE /\ err = "ok")

C3_Witness ==
    /\ pc = "validated" /\ ret = TRUE
    /\ call.master_address = Some(400) /\ call.data = Some(<<11, 255>>)
    /\ Read(MasterAddress_P) = 1
    /\ Read(Data_P(0)) = 1 /\ Read(Data_P(1)) = 0

(***************************************************************************)
(* C4: after construction from a token string, or from fields that supply  *)
(* a slave address, a control value and a data list, the acknowledgement   *)
(* bit of slave address, control, data length and every data byte reads    *)
(* NAK (1), for every slave address in 0..0xFFF, control in 0..0xF and     *)
(* data list of length 0..64.                                              *)
(***************************************************************************)
C4_AcksDefaultToNAK ==
    (/\ Constructed /\ CallInRange /\ SuppliedLen <= MaxMessageLenBytes
     /\ \/ given # None
        \/ call.slave_address # None /\ call.control # None /\ call.data # None)
    =>  /\ Read(SlaveAddress_A) = NAK
        /\ Read(Control_A) = NAK
        /\ Read(DataLength_A) = NAK
        /\ \A i \in 0..(Read(DataLength) - 1) : Read(Data_A(i)) = NAK

\* what a message constructed from the token string reads back as
TokenStringFields ==
    /\ Read(Broadcast) = (IF given[1].type = <<"B">> THEN BROADCAST ELSE UNICAST)
    /\ Read(MasterAddress) = given[1].master
    /\ Read(SlaveAddress) = given[1].slave
    /\ Read(Control) = 15
    /\ Read(DataLength) = Len(given[1].data)
    /\ \A i \in 1..Len(given[1].data) : Read(Data(i - 1)) = given[1].data[i]

\* every token string whose construction completes reads back as its tokens
TokenStringWhenConstructed ==
    (Constructed /\ given # None) => TokenStringFields

\* "- 190 440 f 5 00 25 74 9C 04": length 7, data 0F 05 00 25 74 9C 04
TokenStringExample ==
    /\ pc = "constructed"
    /\ call.message_string = Some(Example1)
    /\ Read(Broadcast) = UNICAST
    /\ Read(DataLength) = 7
    /\ Read(Data(0)) = 15 /\ Read(Data(1)) = 5 /\ Read(Data(5)) = 156

(***************************************************************************)
(* C5: constructing a message from the token string "t m s d0 .. dk-1"     *)
(* yields a message with broadcast flag BROADCAST iff t is "B" and UNICAST *)
(* otherwise, master and slave address hex(m) and hex(s), control 0xF      *)
(* whatever the tokens, data length k and the k tokens as its data bytes,  *)
(* in order; k ranges over the protocol's 0..64 data bytes.                *)
(***************************************************************************)
C5_TokenString ==
    (/\ pc # "new" /\ given # None /\ CallInRange
     /\ Len(given[1].data) <= MaxMessageLenBytes)
    =>  Constructed /\ TokenStringFields

(***************************************************************************)
(* C6: for every message with data length L <= 64 every field access of    *)
(* construction, validation and decoding has its 4-byte window inside the  *)
(* 68-byte buffer, so constructing a message with 0 to 64 data bytes       *)
(* raises no buffer-bounds failure.                                        *)
(***************************************************************************)
C6_WindowsInsideBuffer ==
    (pc # "new" /\ CallInRange /\ SuppliedLen <= MaxMessageLenBytes) =>
        err # "struct.error"

(***************************************************************************)
(* C7: constructing a message from fields or from a token string with more *)
(* than 64 data bytes fails with a range error and yields no message; no   *)
(* message has a data length field above 64.                               *)
(***************************************************************************)
\* the exceptions with which Python code rejects a value that is out of range
RangeErrors == {"ValueError", "OverflowError"}

C7_TooLongIsRangeError ==
    /\ (pc # "new" /\ SuppliedLen > MaxMessageLenBytes) =>
          (pc = "raised" /\ err \in RangeErrors /\ message_bytes = <<>>)
    /\ Constructed => Read(DataLength) <= MaxMessageLenBytes

(***************************************************************************)
(* C8: constructing a message from a malformed token string (too few       *)
(* tokens, the empty string included, or a non-hexadecimal address or data *)
(* token) fails with an error, and no message is produced.                 *)
(***************************************************************************)
C8_MalformedStringFails ==
    (pc # "new" /\ call.message_string # None
     /\ call.message_string[1] \in MalformedStrings)
    => (pc = "raised" /\ err # "ok" /\ message_bytes = <<>>)

(***************************************************************************)
(* C9: the line signal of a message with logical bits b0..bn-1 is a start  *)
(* level for 170 samples, a synchronization level for 20 samples, then for *)
(* each bit LOW for 33 and HIGH for 8 samples (bit 0) or LOW for 20 and    *)
(* HIGH for 21 samples (bit 1), then HIGH for 88 samples; HIGH is the      *)
(* sample '1' and LOW the sample '0'.                                      *)
(***************************************************************************)
HIGH == "1"
LOW  == "0"

Run(level, n) == List([i \in 1..n |-> level])

\* logical bit j of the message: bit j of the buffer, most significant first
LogicalBit(j) == (message_bytes[(j \div 8) + 1] \div Pow2(7 - (j % 8))) % 2

LogicalBits == 44 + 10 * Read(DataLength)

BitPattern(b) ==
    IF b = 0 THEN Run(LOW, 33) \o Run(HIGH, 8) ELSE Run(LOW, 20) \o Run(HIGH, 21)

SignalIs(startLevel, syncLevel) ==
    /\ Len(signal) = 170 + 20 + 41 * LogicalBits + 88
    /\ SubSeq(signal, 1, 170) = Run(startLevel, 170)
    /\ SubSeq(signal, 171, 190) = Run(syncLevel, 20)
    /\ \A j \in 0..(LogicalBits - 1) :
          SubSeq(signal, 191 + 41 * j, 190 + 41 * (j + 1)) = BitPattern(LogicalBit(j))
    /\ SubSeq(signal, 191 + 41 * LogicalBits, Len(signal)) = Run(HIGH, 88)

C10_SignalLength ==
    (pc = "encoded") =>
        LET L == Read(DataLength)
            n == 44 + 10 * L
        IN  /\ Len(signal) = 170 + 20 + 41 * n + 88
            /\ getLengthInBits(message_bytes) = n
            /\ 8 * Len(getAsBytes(message_bytes)) >= n
            /\ \A b \in BOOLEAN : Len(make_output_from_bit(b)) = 41

C10_Witness ==
    /\ pc = "encoded"
    /\ Read(DataLength) = 47
    /\ Len(signal) = 21352


(***************************************************************************)
(* C13: bits_to_bytes packs samples in groups of 8, most significant       *)
(* sample first: a string of m samples gives ceil(m/8) bytes whose first m *)
(* re-expanded bits are the samples (all of them when m is a multiple of   *)
(* 8) and whose remaining low-order bits of the last byte are all 1.       *)
(***************************************************************************)
C13_PackedSamples ==
    (pc = "bytes") =>
        LET m    == Len(call.value)
            bits == bytes_to_bits(ret)
        IN  /\ Len(ret) = (m + 7) \div 8
            /\ Len(bits) = 8 * Len(ret)
            /\ \A i \in 1..m : bits[i] = (call.value[i] = "1")
            /\ \A i \in (m + 1)..Len(bits) : bits[i] = TRUE
            /\ (m % 8 = 0) => Len(bits) = m

\* ten samples: the second byte holds two of them and six idle bits
C13_Witness ==
    /\ pc = "bytes"
    /\ call.value = <<"0", "1", "0", "0", "0", "0", "0", "1", "0", "0">>
    /\ ret = <<65, 63>>

\* a whole byte of samples comes back as itself
C13_WitnessWholeByte ==
    /\ pc = "bytes"
    /\ call.value = <<"1", "0", "0", "0", "0", "0", "0", "0">>
    /\ ret = <<128>>


(***************************************************************************)
(* The timeline of a capture replayed at a regular interval.               *)
(***************************************************************************)
ReplayMessages == Normalized(call.files, call.channel)

ReplaySignals == MessageSignals(ReplayMessages)

RegularComposed == pc = "composed" /\ call.message = None /\ call.regular # 0

Shorter(a, b) == IF a < b THEN a ELSE b

\* message i's signal is on the timeline from offset i * R on, up to the
\* offset of the next message
StartsAtMultiples ==
    \A i \in 0..(Len(ReplayMessages) - 1) :
        LET n == Shorter(Len(ReplaySignals[i + 1]), call.regular)
        IN  SubSeq(signal, i * call.regular + 1, i * call.regular + n)
              = SubSeq(ReplaySignals[i + 1], 1, n)

\* every message's signal is at most one interval long
Spaced == \A i \in 1..Len(ReplaySignals) : Len(ReplaySignals[i]) <= call.regular

\* with the messages no longer than the interval, the timeline is k * R
\* samples long and holds every message's signal at its multiple of R
RegularPlacementWhenSpaced ==
    (RegularComposed /\ Spaced) =>
        /\ Len(signal) = Len(ReplayMessages) * call.regular
        /\ StartsAtMultiples

\* two messages 3000 samples apart on a timeline of 6000 samples
RegularPlacementSpacedExample ==
    /\ RegularComposed /\ call.regular = 3000
    /\ Len(ReplayMessages) = 2
    /\ Len(signal) = 6000
    /\ signal[3000] = HIGH /\ signal[3001] = LOW

(***************************************************************************)
(* C11: in regular-interval mode with k >= 1 messages and interval R > 0,  *)
(* once all messages are copied into the timeline in list order, message   *)
(* i's line signal starts at sample offset i * R for every i in [0, k),    *)
(* and the timeline before idle trimming is exactly k * R samples long:    *)
(* copying a message in never changes the length of the timeline.          *)
(***************************************************************************)
C11_RegularPlacement ==
    RegularComposed =>
        /\ Len(signal) = Len(ReplayMessages) * call.regular
        /\ StartsAtMultiples

(***************************************************************************)
(* C12: with glitchSamples = G >= 0 the final sample buffer is G idle      *)
(* samples followed by the buffer produced without glitch samples (10,000  *)
(* idle samples, the idle-trimmed timeline, 10,000 idle samples): its      *)
(* first G samples are idle and it is exactly G samples longer.            *)
(***************************************************************************)
C12_GlitchPrefix ==
    [][(pc = "composed" /\ pc' = "padded") =>
          LET G == call'.glitch[1]
              plain == Run(HIGH, 10000) \o strip(ret, HIGH) \o Run(HIGH, 10000)
          IN  /\ Len(ret') = G + Len(plain)
              /\ \A i \in 1..G : ret'[i] = HIGH
              /\ SubSeq(ret', G + 1, Len(ret')) = plain]_vars

\* three glitch samples before the guard of a single message of 44 bits,
\* whose trimmed signal starts with the start bit and ends without its idle tail
C12_Witness ==
    /\ pc = "padded" /\ call.glitch = Some(3)
    /\ call.message # None /\ Len(call.message[1]) = 9
    /\ Len(ret) = 3 + 10000 + (170 + 20 + 41 * 44 - 8) + 10000
    /\ ret[3] = HIGH /\ ret[10003] = HIGH /\ ret[10004] = LOW


(***************************************************************************)
(* A message constructed from raw bytes.                                   *)
(***************************************************************************)
RawGiven == call.message_bytes # None /\ Len(call.message_bytes[1]) > 0

\* the raw bytes as the constructor stores them
RawBuffer == ljust(call.message_bytes[1], MaxMessageLenBytes + 4)

DeclaredLen == getField(RawBuffer, DataLength).value

\* some parity bit of the stored message is not the odd parity of its field
ParityMismatch ==
    \/ Read(MasterAddress_P) # OddParity(Read(MasterAddress))
    \/ Read(SlaveAddress_P) # OddParity(Read(SlaveAddress))
    \/ Read(Control_P) # OddParity(Read(Control))
    \/ Read(DataLength_P) # OddParity(Read(DataLength))
    \/ \E i \in 0..(Read(DataLength) - 1) :
          Read(Data_P(i)) # OddParity(Read(Data(i)))

DecodedAndValidated ==
    /\ pc # "raised"
    /\ pc # "new" => message_bytes = RawBuffer
    /\ pc = "validated" =>
          /\ err = "ok"
          /\ (ret = FALSE) <=> ParityMismatch

\* raw bytes declaring at most 47 data bytes construct whatever their parity
\* bits, and validation reports exactly the mismatches
DecodeInsideBuffer ==
    (RawGiven /\ DeclaredLen <= 47) => DecodedAndValidated

\* a message with the parity bit of its second data byte inverted is
\* constructed and fails validation
DecodeBadParityExample ==
    /\ pc = "validated" /\ RawGiven /\ ret = FALSE
    /\ Read(DataLength) = 2 /\ Read(Data(1)) = 255 /\ Read(Data_P(1)) = 1
    /\ Read(MasterAddress_P) = OddParity(Read(MasterAddress))

(***************************************************************************)
(* C14: constructing a message from non-empty raw bytes whose declared     *)
(* data length is at most 64 always completes, whether or not the parities *)
(* match; validation afterwards returns False iff a parity bit of master   *)
(* address, slave address, control, data length or a data byte             *)
(* 0..dataLength-1 differs from the odd parity of its field, and leaves    *)
(* the message buffer unchanged.                                           *)
(***************************************************************************)
C14_DecodeCompletes ==
    (RawGiven /\ DeclaredLen <= MaxMessageLenBytes) => DecodedAndValidated


(***************************************************************************)
(* A message constructed from fields and constructed again from its bytes. *)
(***************************************************************************)
FromFields ==
    /\ call.message_bytes = None /\ call.message_string = None /\ given = None

Supplied(opt, value) == opt = None \/ opt[1] = value

\* the supplied data as the decoder reports it for the stored broadcast flag
AdjustedData ==
    IF Read(Broadcast) = UNICAST
    THEN SubSeq(call.data[1], 2, Len(call.data[1])) ELSE call.data[1]

(***************************************************************************)
(* C16: for every message m constructed from in-range fields with a        *)
(* non-empty data list, the message constructed from m.getAsBytes() has    *)
(* broadcast, master_address, slave_address and data_len equal to those    *)
(* supplied to m, passes validation, and has as data the supplied list for *)
(* a BROADCAST message and the list without its first byte for a UNICAST   *)
(* message, src_device and dst_device being the first and second bytes of  *)
(* that list, or 0 when absent.                                            *)
(***************************************************************************)
C16_EncodeDecode ==
    (/\ pc = "decoded" /\ FromFields /\ CallInRange
     /\ call.data # None /\ Len(call.data[1]) > 0)
    =>  /\ decoded[1].err = "ok"
        /\ LET second == decoded[1].attrs[1]
           IN  /\ Supplied(call.broadcast, second.broadcast)
               /\ Supplied(call.master_address, second.master_address)
               /\ Supplied(call.slave_address, second.slave_address)
               /\ second.data_len = Len(call.data[1])
               /\ second.data = AdjustedData
               /\ second.src_device
                    = (IF Len(AdjustedData) > 0 THEN AdjustedData[1] ELSE 0)
               /\ second.dst_device
                    = (IF Len(AdjustedData) > 1 THEN AdjustedData[2] ELSE 0)
        /\ isValid(decoded[1].buf) = [err |-> "ok", value |-> TRUE]

\* a unicast message of two data bytes comes back without its first byte
C16_Witness ==
    /\ pc = "decoded" /\ FromFields
    /\ call.broadcast = Some(UNICAST) /\ call.master_address = Some(400)
    /\ call.data = Some(<<11, 255>>)
    /\ decoded[1].attrs[1].data = <<255>>
    /\ decoded[1].attrs[1].data_len = 2
    /\ decoded[1].attrs[1].src_device = 255
    /\ decoded[1].attrs[1].dst_device = 0


(***************************************************************************)
(* The bits of the buffer a setField call leaves alone.                    *)
(***************************************************************************)
\* bit k of the buffer, bit 0 the most significant bit of the first byte
BufferBit(buffer, k) == Bit(buffer[(k \div 8) + 1], 7 - (k % 8))

InField(field, k) ==
    k >= field.BitOffset /\ k < field.BitOffset + field.LengthBits

\* the step changes no bit outside the layout of the call
OnlyFieldBits ==
    \A k \in 0..(8 * Len(message_bytes) - 1) :
        InField(call'.field, k)
        \/ BufferBit(message_bytes', k) = BufferBit(message_bytes, k)

\* every layout written so far reads back the value of the last call on it
LastWritesReadBack ==
    \A field \in DOMAIN given' :
        getField(message_bytes', field) = [err |-> "ok", value |-> given'[field]]

SetFieldStep == call'.op = "setField" /\ pc' \in {"set", "raised"}

\* every call that returns changes the bits of its layout only, and the
\* layouts written read back their last values
FrameWhenWritten ==
    [][(SetFieldStep /\ pc' = "set") =>
          (Len(message_bytes') = Len(message_bytes)
           /\ OnlyFieldBits /\ LastWritesReadBack)]_vars

\* the slave address written between two written neighbours
FrameNeighboursExample ==
    /\ pc = "set" /\ call.field = SlaveAddress /\ call.value = 1088
    /\ DOMAIN given = {MasterAddress_P, SlaveAddress, SlaveAddress_P, Control}
    /\ given[MasterAddress_P] = 1 /\ given[SlaveAddress_P] = 1
    /\ given[Control] = 15
    /\ getField(message_bytes, Control).value = 15
    /\ getField(message_bytes, SlaveAddress).value = 1088

(***************************************************************************)
(* C15: setField(layout, v) with 0 <= v < 2^bitLength changes only the     *)
(* bits [bitOffset, bitOffset + bitLength) of the buffer, the bits of the  *)
(* fields sharing its 32-bit window included, so after any sequence of     *)
(* setField calls on the protocol's layouts every field reads back the     *)
(* value of the last write to it.                                          *)
(***************************************************************************)
C15_SetFieldFrame ==
    [][SetFieldStep =>
          (Len(message_bytes') = Len(message_bytes)
           /\ OnlyFieldBits /\ LastWritesReadBack)]_vars

=============================================================================
